---- MODULE Spec2Model ----
(***************************************************************************)
(* A state-machine model of the ScratchIt widget (src/js/ScratchIt.js).    *)
(*                                                                         *)
(* One widget instance is modelled: its closure variables, the browser     *)
(* objects it acts on (the two image loads, the listeners, the pending     *)
(* animation-frame callback, the debounce timer, the overlay's pixels),    *)
(* and one action per handler of the source.                               *)
(*                                                                         *)
(* JavaScript numbers are modelled as tagged values <<kind, n>>: a finite  *)
(* integer <<"fin", n>>, NaN, +Infinity, -Infinity, and undefined.  The    *)
(* only non-integer finite numbers of the program are the unrounded point  *)
(* coordinates inside addPoint and the scale; they are kept as exact       *)
(* fractions.  The container widths of the model make every scale 1, 1/2   *)
(* or Infinity, and on the event coordinates of the model the double       *)
(* arithmetic of the source gives the same results as the exact one.       *)
(***************************************************************************)
EXTENDS Integers, Sequences, FiniteSets, TLC

(***************************************************************************)
(* Bounds of the model.                                                    *)
(***************************************************************************)
OverlayW == 4          \* overlay image: naturalWidth
OverlayH == 2          \* overlay image: naturalHeight
BrushHalf == 1         \* the brush image is 2*BrushHalf pixels wide and high
MaxLog == 4            \* points enqueued over the widget's life
TickMs == 200          \* granularity of the clock that runs the debounce timer
MaxCalls == 2          \* calls of the reveal callback over the widget's life

(***************************************************************************)
(* JavaScript values.                                                      *)
(***************************************************************************)
Fin(n) == <<"fin", n>>
NaN == <<"nan", 0>>
PosInf == <<"inf", 1>>
NegInf == <<"inf", -1>>
Undefined == <<"undefined", 0>>
IsFin(v) == v[1] = "fin"
IsNaN(v) == v[1] = "nan"
IsInf(v) == v[1] = "inf"

Pt(x, y) == [x |-> x, y |-> y]

\* a < b, a <= b on JavaScript numbers (false when either is NaN)
NumLess(a, b) ==
  IF IsNaN(a) \/ IsNaN(b) THEN FALSE
  ELSE IF IsFin(a) /\ IsFin(b) THEN a[2] < b[2]
  ELSE IF IsInf(a) /\ IsInf(b) THEN a[2] < b[2]
  ELSE IF IsInf(a) THEN a[2] < 0
  ELSE b[2] > 0

\* Math.round of the fraction a/b, b > 0: the nearest integer, halves upwards
RoundDiv(a, b) == (2 * a + b) \div (2 * b)

(***************************************************************************)
(* The environment: the constructor's arguments, the two images, the       *)
(* layout and the pointer events.                                          *)
(***************************************************************************)
\* ToNumber, as applied by arguments[4]*1: a number is itself, a numeric
\* string <<"str", n>> is n, undefined is NaN
ToNumber(v) ==
  IF v[1] = "str" THEN Fin(v[2])
  ELSE IF v[1] = "undefined" THEN NaN
  ELSE v

ThresholdArgs == {Fin(-1), Fin(50), Fin(100), Fin(101), Undefined}

\* what el may be: an HTMLElement; an element that is no instance of this
\* window's HTMLElement (an SVG element, an element of another frame); an
\* object with nodeType 1, a string for nodeName and appendChild, but no
\* getBoundingClientRect; an object with nodeType 1 and a string for nodeName
\* only; anything else
Containers == {"element", "foreignElement", "noLayout", "lookalike", "other"}
\* el.nodeType === 1 && typeof el.nodeName === 'string' (line 80)
looksLikeElement(el) == el \in {"element", "foreignElement", "noLayout", "lookalike"}
\* parentEl.appendChild is a function (line 105)
hasAppendChild(el) == el \in {"element", "foreignElement", "noLayout"}
\* parentEl.getBoundingClientRect is a function (line 188)
hasGetBoundingClientRect(el) == el \in {"element", "foreignElement"}

\* new ScratchIt(el, overlayUrl, brushUrl [, callback [, threshold]]);
\* an argument that was not passed is written as the value it is never read.
\* The containers that are no HTMLElement but pass for one come with the
\* three required arguments.
Arguments ==
  { a \in [el : Containers, overlayUrl : {"string", "other"},
           brushUrl : {"string", "other"}, length : {3, 4, 5},
           callback : {"function", "other"}, threshold : ThresholdArgs] :
      /\ (a.length < 4 => a.callback = "function")
      /\ (a.length < 5 => a.threshold = Undefined)
      /\ (a.el \in {"foreignElement", "noLayout", "lookalike"} => a.length = 3) }

\* the overlay's pixels, row-major as in ImageData: (x, y), 0 <= x < width
PixelPos == (0 .. OverlayW - 1) \X (0 .. OverlayH - 1)
\* the images the overlay URL may decode to, alpha per pixel: opaque, but for
\* a pixel at the alpha that counts as revealed and a pixel just above it
OverlayImages ==
  { [p \in PixelPos |-> IF p = <<OverlayW - 1, OverlayH - 1>> THEN 128
                        ELSE IF p = <<OverlayW - 2, 0>> THEN 129
                        ELSE 255] }
\* an overlay image that is opaque throughout
OpaqueOverlay == [p \in PixelPos |-> 255]

BrushW == 2 * BrushHalf
BrushH == 2 * BrushHalf
BrushPos == (0 .. BrushW - 1) \X (0 .. BrushH - 1)
\* the images the brush URL may decode to: a stamp that is opaque but for
\* its top-left pixel, which is transparent
BrushImages ==
  { [p \in BrushPos |-> IF p = <<0, 0>> THEN 0 ELSE 255] }

\* parentEl.getBoundingClientRect().width
ContainerWidths == {0, 2 * OverlayW}

\* overlayCanvas.getBoundingClientRect(): left and top, in the viewport
CanvasOrigin == Pt(3, 1)
\* where the pointer may be, relative to the canvas (CSS pixels)
PointerOffsets == {Pt(2, 2), Pt(7, 3), Pt(-4, 2)}
\* a pointer event: clientX/clientY, offsetX/offsetY
PointerEvents ==
  { [client |-> Pt(CanvasOrigin.x + o.x, CanvasOrigin.y + o.y), offset |-> o] :
      o \in PointerOffsets }
\* pointerdown is listened for on the canvas, so it happens inside it
DownEvents == { e \in PointerEvents : e.offset.x >= 0 /\ e.offset.y >= 0 }

(***************************************************************************)
(* The state.                                                              *)
(***************************************************************************)
VARIABLES
  args,            \* the constructor's arguments
  overlayImage,    \* what the overlay URL decodes to
  brushImage,      \* what the brush URL decodes to
  pc,              \* "new", "thrown" (construct threw), "constructed"
  loading,         \* the image loads in flight: a subset of {"overlay", "brush"}
  overlayCanvas,   \* "undefined", "false", "canvas"
  brushCanvas,     \* "undefined", "false", "canvas"
  overlayLoaded,
  brushLoaded,
  isPointerDown,
  pointerOrigin,
  offsetOrigin,
  scale,           \* the fraction <<num, den>>; den = 0 is Infinity
  paintQueue,      \* each point with n, its rank among the points ever pushed
  lastPoint,       \* <<>> is undefined, <<p>> is the point p
  rafPending,      \* frame callbacks requested and not yet run
  minPointDist,    \* the fraction <<num, den>>
  isRevealed,
  revealThreshold,
  revealCallback,  \* "undefined", "default" (function(){}), "user"
  listening,       \* how many times the listeners were registered
  compositeOp,     \* overlayCtx.globalCompositeOperation
  errorLog,        \* calls of console.error
  containerWidth,  \* parentEl.getBoundingClientRect().width
  timeout,         \* the debounce timer: -1 is none, else the ms left
  pixels,          \* the overlay canvas: alpha per pixel
  revealCalls,     \* calls of revealCallback
  hung,            \* a handler entered a loop that never ends
  enqCount,        \* history: the number of points pushed on paintQueue so far
  drawLog          \* history: the ranks of the points the last run of draw took, in order

vars ==
  << args, overlayImage, brushImage, pc, loading, overlayCanvas, brushCanvas,
     overlayLoaded, brushLoaded, isPointerDown, pointerOrigin, offsetOrigin,
     scale, paintQueue, lastPoint, rafPending, minPointDist, isRevealed,
     revealThreshold, revealCallback, listening, compositeOp, errorLog,
     containerWidth, timeout, pixels, revealCalls, hung, enqCount, drawLog >>

\* the variables written by the image-load callbacks and onCanvasLoaded
loadVars ==
  << overlayCanvas, brushCanvas, overlayLoaded, brushLoaded, scale, rafPending,
     minPointDist, listening, compositeOp, errorLog, pixels >>
\* the variables written by the pointer handlers, draw and testRevealed
pointerVars ==
  << isPointerDown, pointerOrigin, offsetOrigin, paintQueue, lastPoint,
     isRevealed, revealCalls, hung, enqCount, drawLog >>
envVars == << args, overlayImage, brushImage >>

\* lines 8-26: the closure variables as declared, before construct runs
Init ==
  /\ args \in Arguments
  /\ overlayImage \in OverlayImages
  /\ brushImage \in BrushImages
  /\ containerWidth \in ContainerWidths
  /\ pc = "new"
  /\ loading = {}
  /\ overlayCanvas = "undefined"
  /\ brushCanvas = "undefined"
  /\ overlayLoaded = FALSE
  /\ brushLoaded = FALSE
  /\ isPointerDown = FALSE
  /\ pointerOrigin = Pt(0, 0)
  /\ offsetOrigin = Pt(0, 0)
  /\ scale = <<1, 1>>
  /\ paintQueue = <<>>
  /\ lastPoint = <<>>
  /\ rafPending = 0
  /\ minPointDist = <<10, 1>>
  /\ isRevealed = FALSE
  /\ revealThreshold = Undefined
  /\ revealCallback = "undefined"
  /\ listening = 0
  /\ compositeOp = "source-over"
  /\ errorLog = 0
  /\ timeout = -1
  /\ pixels = [p \in PixelPos |-> 0]
  /\ revealCalls = 0
  /\ hung = FALSE
  /\ enqCount = 0
  /\ drawLog = <<>>

(***************************************************************************)
(* Construction and the two image loads.                                   *)
(***************************************************************************)
RECURSIVE Gcd(_, _)
Gcd(a, b) == IF b = 0 THEN a ELSE Gcd(b, a % b)
\* the fraction n/d in lowest terms, n >= 0, d >= 0; d = 0 is Infinity
Frac(n, d) == LET g == Gcd(n, d) IN <<n \div g, d \div g>>

\* line 79: typeof HTMLElement, "object" in a DOM2 browser and "function"
\* where HTMLElement is a constructor
HTMLElementTypes == {"object", "function"}

\* lines 78-81: instanceof HTMLElement where typeof HTMLElement is "object",
\* elsewhere the test of nodeType and nodeName
isDomElement(el, typeofHTMLElement) ==
  IF typeofHTMLElement = "object" THEN el = "element"
  ELSE looksLikeElement(el)

\* lines 187-189: scale = 1 / (width / overlayCanvas.width)
onResize(width) == Frac(OverlayW, width)

\* lines 105-130, the part of onCanvasLoaded before onResize is called: the
\* canvas is appended, the compositing mode and minPointDist are set and the
\* listeners registered
initUpToResize(s) ==
  [s EXCEPT !.compositeOp = "destination-out",
            !.minPointDist = Frac(BrushW, 2),
            !.listening = @ + 1]

\* the variables the load callbacks and onCanvasLoaded read and write, as a record
LoadState ==
  [ loading |-> loading, overlayCanvas |-> overlayCanvas, brushCanvas |-> brushCanvas,
    overlayLoaded |-> overlayLoaded, brushLoaded |-> brushLoaded, scale |-> scale,
    rafPending |-> rafPending, minPointDist |-> minPointDist, listening |-> listening,
    compositeOp |-> compositeOp, errorLog |-> errorLog, pixels |-> pixels ]

SetLoadState(s) ==
  /\ loading' = s.loading
  /\ overlayCanvas' = s.overlayCanvas
  /\ brushCanvas' = s.brushCanvas
  /\ overlayLoaded' = s.overlayLoaded
  /\ brushLoaded' = s.brushLoaded
  /\ scale' = s.scale
  /\ rafPending' = s.rafPending
  /\ minPointDist' = s.minPointDist
  /\ listening' = s.listening
  /\ compositeOp' = s.compositeOp
  /\ errorLog' = s.errorLog
  /\ pixels' = s.pixels

\* onCanvasLoaded going on as soon as either image is there (|| for && in
\* lines 94 and 99)
onCanvasLoaded_Either(s) ==
  IF ~(s.overlayLoaded \/ s.brushLoaded) THEN s
  ELSE IF ~(s.overlayCanvas = "canvas" \/ s.brushCanvas = "canvas")
  THEN [s EXCEPT !.errorLog = @ + 1]
  ELSE IF ~hasAppendChild(args.el) THEN s
  ELSE IF ~hasGetBoundingClientRect(args.el) THEN initUpToResize(s)
  ELSE [initUpToResize(s) EXCEPT !.scale = onResize(containerWidth),
                                 !.rafPending = @ + 1]

\* onCanvasLoaded without its test of the two canvases (lines 99-102)
onCanvasLoaded_NoFailCheck(s) ==
  IF ~(s.overlayLoaded /\ s.brushLoaded) THEN s
  ELSE IF ~hasAppendChild(args.el) THEN s
  ELSE IF ~hasGetBoundingClientRect(args.el) THEN initUpToResize(s)
  ELSE [initUpToResize(s) EXCEPT !.scale = onResize(containerWidth),
                                 !.rafPending = @ + 1]

\* lines 90-135; parentEl.appendChild (line 105) throws a TypeError for a
\* container that has no appendChild, and nothing after it runs; onResize
\* (line 132) throws one at line 188 for a container that has no
\* getBoundingClientRect, and the frame of line 134 is not requested
onCanvasLoaded(s) ==
  IF ~(s.overlayLoaded /\ s.brushLoaded) THEN s
  ELSE IF ~(s.overlayCanvas = "canvas" /\ s.brushCanvas = "canvas")
  THEN [s EXCEPT !.errorLog = @ + 1]
  ELSE IF ~hasAppendChild(args.el) THEN s
  ELSE IF ~hasGetBoundingClientRect(args.el) THEN initUpToResize(s)
  ELSE [initUpToResize(s) EXCEPT !.scale = onResize(containerWidth),
                                 !.rafPending = @ + 1]

\* lines 59-63: the callback given to getCanvasFromImage for the overlay;
\* canvas is "canvas" (imageToCanvas, lines 485-496) or "false"
overlayCallback(s, canvas) ==
  onCanvasLoaded([s EXCEPT !.overlayLoaded = TRUE,
                           !.overlayCanvas = canvas,
                           !.pixels = IF canvas = "canvas" THEN overlayImage ELSE @])

\* lines 64-68: the callback given to getCanvasFromImage for the brush
brushCallback(s, canvas) ==
  onCanvasLoaded([s EXCEPT !.brushLoaded = TRUE, !.brushCanvas = canvas])

loadCallback(s, which, canvas) ==
  IF which = "overlay" THEN overlayCallback(s, canvas) ELSE brushCallback(s, canvas)

\* lines 411-442: a URL that is no string fails at once, else the load starts
getCanvasFromImage(s, which, imgUrl) ==
  IF imgUrl # "string" THEN loadCallback(s, which, "false")
  ELSE [s EXCEPT !.loading = @ \cup {which}]

\* lines 43-44
callbackOf(a) == IF a.length > 3 THEN a.callback ELSE "function"
thresholdOf(a) == IF a.length > 4 THEN ToNumber(a.threshold) ELSE Fin(0)

\* lines 46-54: the three checks that throw
constructThrows(a, typeofHTMLElement) ==
  \/ ~isDomElement(a.el, typeofHTMLElement)
  \/ callbackOf(a) # "function"
  \/ NumLess(thresholdOf(a), Fin(0))
  \/ NumLess(Fin(100), thresholdOf(a))

\* lines 40-69
construct ==
  /\ pc = "new"
  /\ \E typeofHTMLElement \in HTMLElementTypes :
       IF constructThrows(args, typeofHTMLElement)
       THEN /\ pc' = "thrown"
            /\ UNCHANGED << revealCallback, revealThreshold, loading, loadVars >>
       ELSE /\ pc' = "constructed"
            /\ revealCallback' = IF args.length > 3 THEN "user" ELSE "default"
            /\ revealThreshold' = thresholdOf(args)
            /\ SetLoadState(getCanvasFromImage(
                              getCanvasFromImage(LoadState, "overlay", args.overlayUrl),
                              "brush", args.brushUrl))
  /\ UNCHANGED << envVars, pointerVars, containerWidth, timeout >>

\* lines 423-435: image.onload (ok) or image.onerror of one of the two loads
imageLoaded(which, ok) ==
  /\ which \in loading
  /\ SetLoadState(loadCallback([LoadState EXCEPT !.loading = @ \ {which}], which,
                               IF ok THEN "canvas" ELSE "false"))
  /\ UNCHANGED << envVars, pc, revealCallback, revealThreshold, pointerVars,
                  containerWidth, timeout >>

(***************************************************************************)
(* The paint queue: addPoint and draw.                                     *)
(***************************************************************************)
\* v * scale for an integer v: a numerator over the denominator scale[2],
\* or NaN (0 * Infinity), Infinity, -Infinity
Scaled(v, sc) ==
  IF sc[2] # 0 THEN Fin(v * sc[1])
  ELSE IF v = 0 THEN NaN
  ELSE IF v > 0 THEN PosInf
  ELSE NegInf

\* the point {x: x * scale, y: y * scale}: numerators over one denominator
ScaledPoint(x, y, sc) ==
  [x |-> Scaled(x, sc), y |-> Scaled(y, sc), den |-> IF sc[2] = 0 THEN 1 ELSE sc[2]]

\* a - b, a a rounded coordinate and b a numerator over den: a numerator over den
Minus(a, b, den) ==
  IF IsNaN(a) \/ IsNaN(b) THEN NaN
  ELSE IF IsInf(a) /\ IsInf(b) THEN (IF a[2] = b[2] THEN NaN ELSE a)
  ELSE IF IsInf(a) THEN a
  ELSE IF IsInf(b) THEN <<"inf", -b[2]>>
  ELSE Fin(a[2] * den - b[2])

\* Math.round of a numerator over den
Round(v, den) == IF IsFin(v) THEN Fin(RoundDiv(v[2], den)) ELSE v

\* lines 206-208: dist = Math.sqrt(dx*dx + dy*dy), as "nan", "inf", or the
\* square of its numerator over den
DistKind(dx, dy) ==
  IF IsNaN(dx) \/ IsNaN(dy) THEN "nan"
  ELSE IF IsInf(dx) \/ IsInf(dy) THEN "inf"
  ELSE "fin"
DistSq(dx, dy) == dx[2] * dx[2] + dy[2] * dy[2]

\* line 211: dist > minPointDist, for dist = sqrt(d2)/den and minPointDist = m
TooFar(d2, den, m) == d2 * m[2] * m[2] > m[1] * m[1] * den * den

\* line 212 with Math.floor for Math.ceil
NumSegments_Floor(d2, den, m) ==
  CHOOSE n \in 1 .. (d2 + 1) * m[2] :
    /\ n * n * m[1] * m[1] * den * den <= d2 * m[2] * m[2]
    /\ (n + 1) * (n + 1) * m[1] * m[1] * den * den > d2 * m[2] * m[2]

\* line 212: Math.ceil(dist / minPointDist), m > 0
NumSegments(d2, den, m) ==
  CHOOSE n \in 1 .. (d2 + 1) * m[2] :
    /\ n * n * m[1] * m[1] * den * den >= d2 * m[2] * m[2]
    /\ (n - 1) * (n - 1) * m[1] * m[1] * den * den < d2 * m[2] * m[2]

\* lines 213-221: the points pushed by the loop, i = 1 .. numSegments - 1
Interior(point, dx, dy, n) ==
  [ i \in 1 .. n - 1 |->
      Pt(Fin(RoundDiv(point.x[2] * n + i * dx[2], point.den * n)),
         Fin(RoundDiv(point.y[2] * n + i * dy[2], point.den * n))) ]

\* lines 203-223: what the tween branch pushes, or "hang" when its loop
\* never ends (numSegments is Infinity)
Tween(point, last, m) ==
  LET dx == Minus(last.x, point.x, point.den)
      dy == Minus(last.y, point.y, point.den)
      kind == DistKind(dx, dy)
      d2 == DistSq(dx, dy)
  IN  IF kind = "nan" THEN [hang |-> FALSE, points |-> <<>>]
      ELSE IF kind = "inf" THEN [hang |-> TRUE, points |-> <<>>]
      ELSE IF ~TooFar(d2, point.den, m) THEN [hang |-> FALSE, points |-> <<>>]
      ELSE IF m[1] = 0 THEN [hang |-> TRUE, points |-> <<>>]
      ELSE [hang |-> FALSE,
            points |-> Interior(point, dx, dy, NumSegments(d2, point.den, m))]

\* lines 199-231: the points addPoint pushes, in order, or "hang"
addPoint(point, tween, last, m) ==
  LET tw == IF tween /\ last # <<>> THEN Tween(point, last[1], m)
            ELSE [hang |-> FALSE, points |-> <<>>]
      p == Pt(Round(point.x, point.den), Round(point.y, point.den))
  IN  [hang |-> tw.hang, points |-> Append(tw.points, p), lastPoint |-> <<p>>]

\* lines 217, 230: paintQueue.push, for the points of one addPoint in order;
\* the k-th point pushed is ranked count + k
push(queue, points, count) ==
  queue \o [k \in 1 .. Len(points) |->
             [x |-> points[k].x, y |-> points[k].y, n |-> count + k]]

\* addPoint's writes
DoAddPoint(point, tween) ==
  LET r == addPoint(point, tween, lastPoint, minPointDist)
  IN  IF r.hang
      THEN /\ hung' = TRUE
           /\ UNCHANGED << paintQueue, lastPoint, enqCount >>
      ELSE /\ enqCount + Len(r.points) <= MaxLog
           /\ paintQueue' = push(paintQueue, r.points, enqCount)
           /\ enqCount' = enqCount + Len(r.points)
           /\ lastPoint' = r.lastPoint
           /\ UNCHANGED hung

\* xor for destination-out: the overlay's alpha a under a source pixel of
\* alpha s
DestinationOut_Xor(a, s) ==
  (2 * (a * (255 - s) + s * (255 - a)) + 255) \div 510

\* line 110, destination-out: the overlay's alpha a under a source pixel of
\* alpha s becomes a * (1 - s/255), rounded to the nearest of 0 .. 255 (the
\* quotient is never halfway between two of them, 255 being odd)
DestinationOut(a, s) == (2 * a * (255 - s) + 255) \div 510

\* line 147 without the centring: drawImage(brushCanvas, x, y)
drawImage_TopLeft(px, point) ==
  IF ~(IsFin(point.x) /\ IsFin(point.y)) THEN px
  ELSE LET left == point.x[2]
           top == point.y[2]
       IN  [ p \in PixelPos |->
               IF /\ p[1] - left \in 0 .. BrushW - 1
                  /\ p[2] - top \in 0 .. BrushH - 1
               THEN DestinationOut(px[p], brushImage[<<p[1] - left, p[2] - top>>])
               ELSE px[p] ]

\* line 147: overlayCtx.drawImage(brushCanvas, x - width/2, y - height/2);
\* a call with a NaN or infinite coordinate draws nothing
drawImage(px, point) ==
  IF ~(IsFin(point.x) /\ IsFin(point.y)) THEN px
  ELSE LET left == (2 * point.x[2] - BrushW) \div 2
           top == (2 * point.y[2] - BrushH) \div 2
       IN  [ p \in PixelPos |->
               IF /\ p[1] - left \in 0 .. BrushW - 1
                  /\ p[2] - top \in 0 .. BrushH - 1
               THEN DestinationOut(px[p], brushImage[<<p[1] - left, p[2] - top>>])
               ELSE px[p] ]

\* pop for shift: the point is taken from the tail
shift_Pop(queue) == <<queue[Len(queue)], SubSeq(queue, 1, Len(queue) - 1)>>

\* line 146: paintQueue.shift(): the point taken and the queue left
shift(queue) == <<Head(queue), Tail(queue)>>

\* lines 145-148: the loop of draw; log records the ranks of the points in the
\* order in which they are taken
RECURSIVE drawLoop(_, _, _)
drawLoop(px, queue, log) ==
  IF queue = <<>> THEN [pixels |-> px, log |-> log]
  ELSE LET s == shift(queue)
       IN  drawLoop(drawImage(px, s[1]), s[2], Append(log, s[1].n))

\* draw without line 150: no further frame is requested
draw_NoReschedule ==
  /\ rafPending > 0
  /\ ~hung
  /\ pixels' = drawLoop(pixels, paintQueue, <<>>).pixels
  /\ drawLog' = drawLoop(pixels, paintQueue, <<>>).log
  /\ paintQueue' = <<>>
  /\ rafPending' = rafPending - 1
  /\ UNCHANGED << envVars, pc, loading, overlayCanvas, brushCanvas, overlayLoaded,
                  brushLoaded, isPointerDown, pointerOrigin, offsetOrigin, scale,
                  lastPoint, minPointDist, isRevealed, revealThreshold,
                  revealCallback, listening, compositeOp, errorLog, containerWidth,
                  timeout, revealCalls, hung, enqCount >>

\* draw with an if for its while: one point is taken per frame
draw_OnePerFrame ==
  /\ rafPending > 0
  /\ ~hung
  /\ IF paintQueue = <<>>
     THEN /\ drawLog' = <<>>
          /\ UNCHANGED << pixels, paintQueue >>
     ELSE /\ pixels' = drawImage(pixels, shift(paintQueue)[1])
          /\ drawLog' = <<shift(paintQueue)[1].n>>
          /\ paintQueue' = shift(paintQueue)[2]
  /\ rafPending' = rafPending - 1 + 1
  /\ UNCHANGED << envVars, pc, loading, overlayCanvas, brushCanvas, overlayLoaded,
                  brushLoaded, isPointerDown, pointerOrigin, offsetOrigin, scale,
                  lastPoint, minPointDist, isRevealed, revealThreshold,
                  revealCallback, listening, compositeOp, errorLog, containerWidth,
                  timeout, revealCalls, hung, enqCount >>

\* lines 143-151
draw ==
  /\ rafPending > 0
  /\ ~hung
  /\ pixels' = drawLoop(pixels, paintQueue, <<>>).pixels
  /\ drawLog' = drawLoop(pixels, paintQueue, <<>>).log
  /\ paintQueue' = <<>>
  /\ rafPending' = rafPending - 1 + 1
  /\ UNCHANGED << envVars, pc, loading, overlayCanvas, brushCanvas, overlayLoaded,
                  brushLoaded, isPointerDown, pointerOrigin, offsetOrigin, scale,
                  lastPoint, minPointDist, isRevealed, revealThreshold,
                  revealCallback, listening, compositeOp, errorLog, containerWidth,
                  timeout, revealCalls, hung, enqCount >>

(***************************************************************************)
(* The pointer handlers and the reveal test.                               *)
(***************************************************************************)
\* a handler runs when its listener is registered and the page is responsive
Handling == listening > 0 /\ ~hung

\* onPointerDown calling addPoint with tween set (line 263 with ", true")
onPointerDown_Tween(event) ==
  /\ Handling
  /\ isPointerDown' = TRUE
  /\ pointerOrigin' = event.client
  /\ offsetOrigin' = event.offset
  /\ DoAddPoint(ScaledPoint(event.offset.x, event.offset.y, scale), TRUE)
  /\ UNCHANGED << envVars, pc, loading, loadVars, revealThreshold, revealCallback,
                  containerWidth, timeout, isRevealed, revealCalls, drawLog >>

\* lines 253-267; getPointFromEvent (342-347) is the event's client point,
\* getOffsetPointFromEvent (355-388) its offset point
onPointerDown(event) ==
  /\ Handling
  /\ isPointerDown' = TRUE
  /\ pointerOrigin' = event.client
  /\ offsetOrigin' = event.offset
  /\ DoAddPoint(ScaledPoint(event.offset.x, event.offset.y, scale), FALSE)
  /\ UNCHANGED << envVars, pc, loading, loadVars, revealThreshold, revealCallback,
                  containerWidth, timeout, isRevealed, revealCalls, drawLog >>

\* lines 276-285
onPointerMove(event) ==
  /\ Handling
  /\ IF ~isPointerDown
     THEN UNCHANGED << paintQueue, lastPoint, enqCount, hung >>
     ELSE DoAddPoint(ScaledPoint(offsetOrigin.x + (event.client.x - pointerOrigin.x),
                                 offsetOrigin.y + (event.client.y - pointerOrigin.y),
                                 scale), TRUE)
  /\ UNCHANGED << envVars, pc, loading, loadVars, revealThreshold, revealCallback,
                  containerWidth, timeout, isPointerDown, pointerOrigin, offsetOrigin,
                  isRevealed, revealCalls, drawLog >>

\* line 318
alphaThreshold == 128

\* lines 323-328: the number of pixels whose alpha is at most alphaThreshold
numVisible(px) == Cardinality({ p \in PixelPos : px[p] <= alphaThreshold })

\* line 319
totalPixels == OverlayW * OverlayH

\* the comparison of line 330 guarded by a truthy threshold, so that a
\* threshold of 0 never fires
thresholdReached_Truthy(visible, threshold) ==
  /\ IsFin(threshold) /\ threshold[2] # 0
  /\ visible * 100 >= threshold[2] * totalPixels

\* line 330 with > for >=
thresholdReached_Strict(visible, threshold) ==
  IsFin(threshold) /\ visible * 100 > threshold[2] * totalPixels

\* line 330: (numVisible / totalPixels * 100) >= revealThreshold
thresholdReached(visible, threshold) ==
  IsFin(threshold) /\ visible * 100 >= threshold[2] * totalPixels

\* what a call of revealCallback may do (line 331): the default function(){}
\* returns; a function given by the user returns, throws, or re-enters the
\* widget before it returns, by dispatching a pointerdown and a pointerup
\* on it
CallbackOutcomes(cb) ==
  IF cb = "user" THEN {"returns", "throws", "reenters"} ELSE {"returns"}

\* lines 315-334 run from the pointerup that the callback dispatches while
\* isRevealed is still false: the same pixels are scanned, the callback is
\* called again (and returns), and line 332 sets isRevealed
nestedTestRevealed(calls) ==
  IF thresholdReached(numVisible(pixels), revealThreshold)
  THEN [isRevealed |-> TRUE, revealCalls |-> calls + 1]
  ELSE [isRevealed |-> FALSE, revealCalls |-> calls]

\* lines 315-334: isRevealed and revealCalls after testRevealed, for what
\* the callback does if it is called; reentered tells that the callback
\* dispatched its two events. Line 331 calls the callback, and line 332 sets
\* isRevealed only when the call has returned.
testRevealed(revealed, calls, outcome) ==
  IF revealed
  THEN [isRevealed |-> revealed, revealCalls |-> calls, reentered |-> FALSE]
  ELSE IF ~thresholdReached(numVisible(pixels), revealThreshold)
  THEN [isRevealed |-> revealed, revealCalls |-> calls, reentered |-> FALSE]
  ELSE IF outcome = "throws"
  THEN [isRevealed |-> FALSE, revealCalls |-> calls + 1, reentered |-> FALSE]
  ELSE IF outcome = "reenters"
  THEN [isRevealed |-> TRUE, revealCalls |-> nestedTestRevealed(calls + 1).revealCalls,
        reentered |-> TRUE]
  ELSE [isRevealed |-> TRUE, revealCalls |-> calls + 1, reentered |-> FALSE]

\* lines 298-304, the body of onPointerUp for an active session: the
\* session is cleared, then testRevealed runs. When the callback re-enters,
\* its pointerdown (lines 253-267) pushes its point, untweened, and its
\* pointerup (lines 294-305) clears the session again and runs testRevealed.
\* When the callback throws, lines 298-302 have already run.
endSession ==
  \E outcome \in CallbackOutcomes(revealCallback) :
    LET r == testRevealed(isRevealed, revealCalls, outcome)
    IN  /\ r.revealCalls <= MaxCalls
        /\ isPointerDown' = FALSE
        /\ lastPoint' = <<>>
        /\ pointerOrigin' = Pt(0, 0)
        /\ offsetOrigin' = Pt(0, 0)
        /\ isRevealed' = r.isRevealed
        /\ revealCalls' = r.revealCalls
        /\ IF r.reentered
           THEN \E e \in DownEvents :
                  LET a == addPoint(ScaledPoint(e.offset.x, e.offset.y, scale),
                                    FALSE, <<>>, minPointDist)
                  IN  /\ enqCount + Len(a.points) <= MaxLog
                      /\ paintQueue' = push(paintQueue, a.points, enqCount)
                      /\ enqCount' = enqCount + Len(a.points)
           ELSE UNCHANGED << paintQueue, enqCount >>

\* onPointerUp without its test of isPointerDown (line 295)
onPointerUp_NoGuard ==
  /\ Handling
  /\ endSession
  /\ UNCHANGED << envVars, pc, loading, loadVars, revealThreshold, revealCallback,
                  containerWidth, timeout, hung, drawLog >>

\* lines 294-305
onPointerUp ==
  /\ Handling
  /\ IF ~isPointerDown
     THEN UNCHANGED << isPointerDown, lastPoint, pointerOrigin, offsetOrigin,
                       isRevealed, revealCalls, paintQueue, enqCount >>
     ELSE endSession
  /\ UNCHANGED << envVars, pc, loading, loadVars, revealThreshold, revealCallback,
                  containerWidth, timeout, hung, drawLog >>

(***************************************************************************)
(* Resizing: the debounced onResize.                                       *)
(***************************************************************************)
\* line 130: the wait given to debounce, in ms
DebounceWait == 200

\* the handler of debounce called with immediate set: onResize runs at the
\* first event of a burst (line 176)
resize_Immediate(width) ==
  /\ ~hung
  /\ containerWidth' = width
  /\ timeout' = IF listening > 0 THEN DebounceWait ELSE timeout
  /\ scale' = IF listening > 0 /\ timeout = -1 /\ hasGetBoundingClientRect(args.el)
              THEN onResize(width) ELSE scale
  /\ UNCHANGED << envVars, pc, loading, overlayCanvas, brushCanvas, overlayLoaded,
                  brushLoaded, rafPending, minPointDist, listening, compositeOp,
                  errorLog, pixels, revealThreshold, revealCallback, pointerVars >>

\* a resize event of the window, the container now being width wide;
\* lines 167-177: the debounced handler restarts its timer
resize(width) ==
  /\ ~hung
  /\ containerWidth' = width
  /\ timeout' = IF listening > 0 THEN DebounceWait ELSE timeout
  /\ UNCHANGED << envVars, pc, loading, loadVars, revealThreshold, revealCallback,
                  pointerVars >>

\* TickMs of time pass; a timer that is due runs before more time passes
tick ==
  /\ timeout > 0
  /\ timeout' = IF timeout > TickMs THEN timeout - TickMs ELSE 0
  /\ UNCHANGED << envVars, pc, loading, loadVars, revealThreshold, revealCallback,
                  pointerVars, containerWidth >>

\* lines 169-172: the timer runs later(), which clears timeout and calls
\* onResize; line 188 throws for a container without getBoundingClientRect
later ==
  /\ timeout = 0
  /\ ~hung
  /\ timeout' = -1
  /\ scale' = IF hasGetBoundingClientRect(args.el) THEN onResize(containerWidth)
              ELSE scale
  /\ UNCHANGED << envVars, pc, loading, overlayCanvas, brushCanvas, overlayLoaded,
                  brushLoaded, rafPending, minPointDist, listening, compositeOp,
                  errorLog, pixels, revealThreshold, revealCallback, pointerVars,
                  containerWidth >>

(***************************************************************************)
(* The specification.                                                      *)
(***************************************************************************)
Next ==
  \/ construct
  \/ \E which \in {"overlay", "brush"}, ok \in BOOLEAN : imageLoaded(which, ok)
  \/ \E e \in DownEvents : onPointerDown(e)
  \/ \E e \in PointerEvents : onPointerMove(e)
  \/ onPointerUp
  \/ draw
  \/ \E w \in ContainerWidths : resize(w)
  \/ tick
  \/ later

Spec == Init /\ [][Next]_vars

(***************************************************************************)
(* addPoint on its own: a widget that has loaded both images in a          *)
(* container that is laid out, with a session just opened by a             *)
(* pointer-down, and from there pointer-moves over a grid of positions.    *)
(***************************************************************************)
\* container widths that are laid out: scale 1 and scale 1/2
TweenWidths == {OverlayW, 2 * OverlayW}
\* positions of the pointer relative to the canvas, inside it and left of it
TweenOffsets == { Pt(x, y) : x \in -1 .. OverlayW, y \in 0 .. OverlayH }
TweenEvents ==
  { [client |-> Pt(CanvasOrigin.x + o.x, CanvasOrigin.y + o.y), offset |-> o] :
      o \in TweenOffsets }

\* the state after construct, both loads, and onPointerDown(e0)
TweenInit ==
  /\ args \in { a \in Arguments : /\ a.el = "element" /\ a.length = 3
                                  /\ a.overlayUrl = "string" /\ a.brushUrl = "string" }
  /\ overlayImage \in OverlayImages \cup {OpaqueOverlay}
  /\ brushImage \in BrushImages
  /\ containerWidth \in TweenWidths
  /\ pc = "constructed"
  /\ loading = {}
  /\ overlayCanvas = "canvas"
  /\ brushCanvas = "canvas"
  /\ overlayLoaded = TRUE
  /\ brushLoaded = TRUE
  /\ scale = onResize(containerWidth)
  /\ rafPending = 1
  /\ minPointDist = Frac(BrushW, 2)
  /\ isRevealed = FALSE
  /\ revealThreshold = thresholdOf(args)
  /\ revealCallback = "default"
  /\ listening = 1
  /\ compositeOp = "destination-out"
  /\ errorLog = 0
  /\ timeout = -1
  /\ pixels = overlayImage
  /\ revealCalls = 0
  /\ hung = FALSE
  /\ drawLog = <<>>
  /\ isPointerDown = TRUE
  /\ \E e \in DownEvents :
        LET r == addPoint(ScaledPoint(e.offset.x, e.offset.y, scale), FALSE, <<>>,
                          minPointDist)
        IN  /\ pointerOrigin = e.client
            /\ offsetOrigin = e.offset
            /\ paintQueue = push(<<>>, r.points, 0)
            /\ lastPoint = r.lastPoint
            /\ enqCount = 1

TweenNext == \E e \in TweenEvents : onPointerMove(e)

TweenSpec == TweenInit /\ [][TweenNext]_vars

(***************************************************************************)
(* Stamping on its own: an initialised widget whose brush may have a       *)
(* half-transparent pixel, pointer sessions that enqueue points, and       *)
(* frames that stamp them.                                                 *)
(***************************************************************************)
\* the images the brush URL may decode to here: the stamp of BrushImages,
\* and one with a transparent, a half-transparent and opaque pixels
StampBrushes ==
  BrushImages \cup
  { [p \in BrushPos |-> IF p = <<0, 0>> THEN 0
                        ELSE IF p = <<0, BrushH - 1>> THEN 128
                        ELSE 255] }

\* the state after construct and both loads, no session opened yet
StampInit ==
  /\ args \in { a \in Arguments : /\ a.el = "element" /\ a.length = 3
                                  /\ a.overlayUrl = "string" /\ a.brushUrl = "string" }
  /\ overlayImage \in OverlayImages \cup {OpaqueOverlay}
  /\ brushImage \in StampBrushes
  /\ containerWidth \in TweenWidths
  /\ pc = "constructed"
  /\ loading = {}
  /\ overlayCanvas = "canvas"
  /\ brushCanvas = "canvas"
  /\ overlayLoaded = TRUE
  /\ brushLoaded = TRUE
  /\ scale = onResize(containerWidth)
  /\ rafPending = 1
  /\ minPointDist = Frac(BrushW, 2)
  /\ isRevealed = FALSE
  /\ revealThreshold = thresholdOf(args)
  /\ revealCallback = "default"
  /\ listening = 1
  /\ compositeOp = "destination-out"
  /\ errorLog = 0
  /\ timeout = -1
  /\ pixels = overlayImage
  /\ revealCalls = 0
  /\ hung = FALSE
  /\ drawLog = <<>>
  /\ isPointerDown = FALSE
  /\ pointerOrigin = Pt(0, 0)
  /\ offsetOrigin = Pt(0, 0)
  /\ paintQueue = <<>>
  /\ lastPoint = <<>>
  /\ enqCount = 0

StampNext ==
  \/ \E e \in DownEvents : onPointerDown(e)
  \/ \E e \in PointerEvents : onPointerMove(e)
  \/ onPointerUp
  \/ draw

StampSpec == StampInit /\ [][StampNext]_vars

\* frames keep occurring: the browser runs a requested frame callback
LiveSpec == StampInit /\ [][StampNext]_vars /\ WF_vars(draw)

(***************************************************************************)
(* The claims.                                                             *)
(***************************************************************************)
\* a step in which onPointerUp ends an active session: no other handler
\* clears isPointerDown
PointerUpStep == isPointerDown /\ ~isPointerDown'

\* the pixels of the overlay that count as scratched off: alpha at most 128
Erased(px) == { p \in PixelPos : px[p] <= 128 }

\* erased / total * 100 >= percent
ErasedAtLeast(px, percent) ==
  Cardinality(Erased(px)) * 100 >= percent * Cardinality(PixelPos)

\* C1: the reveal callback is invoked at most once: in every step the number
\* of its calls stays 0 or 1, and once isRevealed is true it stays true and
\* no step (a later pointer-up included) changes the number of calls.
C1_RevealAtMostOnce ==
  [][ /\ revealCalls' \in {0, 1}
      /\ (isRevealed => isRevealed' /\ revealCalls' = revealCalls) ]_vars

\* C2: a pointer-up that ends an active session of a widget not yet revealed
\* invokes the callback if and only if erased / total * 100 >= threshold (a
\* comparison that is false for a threshold that is NaN); with threshold 100
\* every call finds every pixel's alpha at most 128.
C2_RevealIffThreshold ==
  [][ PointerUpStep /\ ~isRevealed =>
        /\ revealCalls' > revealCalls <=>
             (IsFin(revealThreshold) /\ ErasedAtLeast(pixels, revealThreshold[2]))
        /\ revealCalls' >= revealCalls
        /\ (revealThreshold = Fin(100) /\ revealCalls' # revealCalls =>
              \A p \in PixelPos : pixels[p] <= 128) ]_vars

\* C2 witness: with threshold 50 the callback was called when exactly half of
\* the pixels were erased (no pixel is ever restored, so half were erased at
\* the call at most, and the call needed half at least).
C2_Witness ==
  /\ revealThreshold = Fin(50)
  /\ revealCalls = 1
  /\ Cardinality(Erased(pixels)) * 2 = Cardinality(PixelPos)

\* C3: with threshold 0 the callback fires on the first pointer-up that
\* completes a session: once a point was enqueued and no session is active,
\* a session was completed, and the callback has been called.
C3_ZeroThresholdFiresFirst ==
  revealThreshold = Fin(0) /\ enqCount > 0 /\ ~isPointerDown => revealCalls >= 1

\* C3 witness: threshold 0, the callback called by the first pointer-up,
\* before anything was painted and with no pixel erased that the overlay
\* image did not have erased.
C3_Witness ==
  /\ revealThreshold = Fin(0)
  /\ revealCalls = 1
  /\ enqCount = 1
  /\ paintQueue # <<>>
  /\ drawLog = <<>>
  /\ pixels = overlayImage

\* C4: constructed without a revealPercent argument, the callback is not
\* invoked by a pointer-up while fewer than 50% of the pixels are erased.
C4_DefaultThresholdIs50 ==
  [][ args.length < 5 /\ revealCalls' # revealCalls =>
        ErasedAtLeast(pixels, 50) ]_vars

\* C5: until both loads have completed the widget is as declared: no
\* listener, the default compositing mode, no frame callback, no debounce
\* timer, and the initial scale and minPointDist.
C5_NothingBeforeBothLoaded ==
  ~(overlayLoaded /\ brushLoaded) =>
    /\ listening = 0
    /\ compositeOp = "source-over"
    /\ rafPending = 0
    /\ timeout = -1
    /\ scale = <<1, 1>>
    /\ minPointDist = <<10, 1>>
    /\ errorLog = 0

\* C5 witness: the brush has loaded, first and alone.
C5_Witness == brushLoaded /\ brushCanvas = "canvas" /\ ~overlayLoaded

\* C6: once a load has failed the widget is inert in every state that
\* follows: no listener, no frame callback, no point enqueued or painted, no
\* call of the callback; and the failure is logged once, by the call of
\* onCanvasLoaded that finds both loads completed, and not before.
C6_FailedLoadInert ==
  overlayCanvas = "false" \/ brushCanvas = "false" =>
    /\ listening = 0
    /\ rafPending = 0
    /\ compositeOp = "source-over"
    /\ enqCount = 0
    /\ paintQueue = <<>>
    /\ drawLog = <<>>
    /\ ~isPointerDown
    /\ revealCalls = 0
    /\ errorLog = IF overlayLoaded /\ brushLoaded THEN 1 ELSE 0

\* C6 witness: both loads have failed, and one error is logged.
C6_Witness == overlayCanvas = "false" /\ brushCanvas = "false" /\ errorLog = 1

\* the arguments C7 is about: a container that is no DOM element, a
\* callback that is no function, or a threshold that is no number from 0 to
\* 100 (a threshold that was not passed is 0)
InvalidArguments(a) ==
  \/ a.el \notin {"element", "foreignElement"}
  \/ a.length > 3 /\ a.callback # "function"
  \/ a.length > 4 /\ ~(/\ IsFin(ToNumber(a.threshold))
                        /\ ToNumber(a.threshold)[2] \in 0 .. 100)

\* C7: with such arguments construct throws, and in every state that follows
\* no load was started, no listener or frame callback exists and neither the
\* callback nor the threshold is stored.
C7_InvalidArgumentsThrow ==
  InvalidArguments(args) /\ pc # "new" =>
    /\ pc = "thrown"
    /\ loading = {}
    /\ ~overlayLoaded /\ ~brushLoaded
    /\ overlayCanvas = "undefined" /\ brushCanvas = "undefined"
    /\ listening = 0
    /\ rafPending = 0
    /\ errorLog = 0
    /\ revealCallback = "undefined"
    /\ revealThreshold = Undefined

\* C8: when a pointer-up runs the reveal scan, the paint queue holds no
\* point: all that was enqueued has been applied to the overlay.
C8_ScanAfterDrain ==
  [][ PointerUpStep /\ ~isRevealed => paintQueue = <<>> ]_vars

\* C9: points are drawn in the order in which they were enqueued: the queue
\* holds the last points pushed, in the order pushed, and the last frame
\* took the points pushed just before them, in the order pushed.
C9_DrawnInEnqueueOrder ==
  /\ \A i \in 1 .. Len(paintQueue) :
       paintQueue[i].n = enqCount - Len(paintQueue) + i
  /\ \A i \in 1 .. Len(drawLog) :
       drawLog[i] = enqCount - Len(paintQueue) - Len(drawLog) + i

\* C9 witness: a frame has drawn two points or more, and a point pushed
\* since waits for the next frame.
C9_Witness == Len(drawLog) >= 2 /\ paintQueue # <<>>

\* the least integer that is at least the fraction m
Ceil(m) == (m[1] + m[2] - 1) \div m[2]

Abs(i) == IF i < 0 THEN -i ELSE i

\* two points at most m apart differ by at most m in each coordinate, and
\* by at most Ceil(m) once both are rounded to integer pixels
NearUpToRounding(p, q, m) ==
  /\ Abs(p.x[2] - q.x[2]) <= Ceil(m)
  /\ Abs(p.y[2] - q.y[2]) <= Ceil(m)

\* C10: when a tweened addPoint pushes interpolated points, any two
\* consecutive points, from the previous lastPoint through the points pushed
\* in the order pushed, are at most minPointDist apart up to rounding.
C10_TweenSpacing ==
  [][ lastPoint # <<>> /\ Len(paintQueue') >= Len(paintQueue) + 2 =>
        LET pts == <<lastPoint[1]>> \o
                   SubSeq(paintQueue', Len(paintQueue) + 1, Len(paintQueue'))
        IN  \A i \in 1 .. Len(pts) - 1 :
              NearUpToRounding(pts[i], pts[i + 1], minPointDist) ]_vars

\* the point onPointerMove hands to addPoint for the event e, before
\* rounding: numerators over the denominator den (lines 281-284)
MovedTo(e) ==
  [x |-> (offsetOrigin.x + (e.client.x - pointerOrigin.x)) * scale[1],
   y |-> (offsetOrigin.y + (e.client.y - pointerOrigin.y)) * scale[1],
   den |-> scale[2]]

\* the square of den times the distance between the integer point last and
\* the point p given by numerators over den
DistSqTimesDenSq(last, p) ==
  (last.x[2] * p.den - p.x) * (last.x[2] * p.den - p.x)
    + (last.y[2] * p.den - p.y) * (last.y[2] * p.den - p.y)

\* k * m < dist, for dist = sqrt(d2) / den and the fraction m
Below(k, m, d2, den) == k * k * m[1] * m[1] * den * den < d2 * m[2] * m[2]

\* C11: a tweened addPoint at distance dist from lastPoint pushes k interior
\* points and then the new point, where k = 0 if dist <= minPointDist and
\* k = ceil(dist / minPointDist) - 1 otherwise, that is
\* k * minPointDist < dist <= (k + 1) * minPointDist.
C11_InteriorCount ==
  [][ \A e \in TweenEvents :
        onPointerMove(e) /\ isPointerDown /\ lastPoint # <<>> =>
          LET p == MovedTo(e)
              d2 == DistSqTimesDenSq(lastPoint[1], p)
              k == Len(paintQueue') - Len(paintQueue) - 1
          IN  /\ k >= 0
              /\ ~Below(1, minPointDist, d2, p.den) => k = 0
              /\ Below(1, minPointDist, d2, p.den) =>
                   /\ Below(k, minPointDist, d2, p.den)
                   /\ ~Below(k + 1, minPointDist, d2, p.den)
              /\ paintQueue'[Len(paintQueue')].x = Fin(RoundDiv(p.x, p.den))
              /\ paintQueue'[Len(paintQueue')].y = Fin(RoundDiv(p.y, p.den)) ]_vars

\* C11 witness: at scale 1 with minPointDist 1, a session opened at (2,2)
\* and moved to (-1,2), at distance 3: two interior points and the new point
\* were pushed.
C11_Witness ==
  /\ isPointerDown /\ scale = <<1, 1>> /\ minPointDist = <<1, 1>>
  /\ Len(paintQueue) = 4
  /\ [i \in 1 .. 4 |-> paintQueue[i].x] = <<Fin(2), Fin(0), Fin(1), Fin(-1)>>
  /\ \A i \in 1 .. 4 : paintQueue[i].y = Fin(2)
  /\ lastPoint = <<Pt(Fin(-1), Fin(2))>>

\* C12: once the widget is initialised, a resize event restarts the wait of
\* 200 ms and recomputes nothing; the scale is recomputed only by the timer
\* running out, which it does only when 200 ms have passed with no resize
\* event, once, from the width the container then has.
C12_ResizeDebounced ==
  [][ listening > 0 =>
        /\ containerWidth' # containerWidth =>
             timeout' = DebounceWait /\ scale' = scale
        /\ timeout' > timeout => timeout' = DebounceWait /\ scale' = scale
        /\ 0 <= timeout' /\ timeout' < timeout =>
             timeout' >= timeout - TickMs /\ scale' = scale
               /\ containerWidth' = containerWidth
        /\ timeout' = -1 /\ timeout # -1 =>
             /\ timeout = 0
             /\ containerWidth' = containerWidth
             /\ scale' = IF ~hasGetBoundingClientRect(args.el) THEN scale
                         ELSE IF containerWidth = 0 THEN <<1, 0>>
                         ELSE Frac(OverlayW, containerWidth)
        /\ scale' # scale => timeout = 0 /\ timeout' = -1 ]_vars

\* C12 witness: a point was enqueued under a finite scale; since then the
\* container was resized to width 0, the wait has run out and the scale was
\* recomputed from that width.
C12_Witness ==
  /\ listening > 0 /\ timeout = -1
  /\ paintQueue # <<>> /\ IsFin(paintQueue[1].x)
  /\ containerWidth = 0 /\ scale = <<1, 0>>

\* the square of the distance between two points with integer coordinates
DistSqInt(p, q) ==
  (p.x[2] - q.x[2]) * (p.x[2] - q.x[2]) + (p.y[2] - q.y[2]) * (p.y[2] - q.y[2])

\* C13: when a tweened addPoint pushes interior points, each of them is at
\* least as near to the new point as the one pushed before it, the new point
\* is pushed last, and lastPoint becomes the new point.
C13_InteriorTowardNewPoint ==
  [][ lastPoint # <<>> /\ Len(paintQueue') >= Len(paintQueue) + 2 =>
        LET pts == SubSeq(paintQueue', Len(paintQueue) + 1, Len(paintQueue'))
            new == pts[Len(pts)]
        IN  /\ lastPoint' = <<Pt(new.x, new.y)>>
            /\ \A i \in 1 .. Len(pts) - 2 :
                 DistSqInt(pts[i + 1], new) <= DistSqInt(pts[i], new) ]_vars

\* C14: whenever a point is enqueued, the stored scale is a finite number
\* above 0.
C14_FiniteScaleWhenEnqueued ==
  [][ enqCount' > enqCount => scale[1] > 0 /\ scale[2] > 0 ]_vars

\* C15: while no session is active and none is opened, no step enqueues a
\* point, runs the callback, sets the revealed flag or touches the session's
\* variables: pointer-move and pointer-up (pointer-leave) events change
\* nothing then.
C15_NoSessionNoEffect ==
  [][ ~isPointerDown /\ ~isPointerDown' =>
        /\ enqCount' = enqCount
        /\ revealCalls' = revealCalls
        /\ isRevealed' = isRevealed
        /\ lastPoint' = lastPoint /\ lastPoint = <<>>
        /\ pointerOrigin' = pointerOrigin
        /\ offsetOrigin' = offsetOrigin
        /\ hung' = hung ]_vars

\* C15 witness: a session has ended without the reveal; since then a frame
\* has erased enough for the threshold, so that a scan would now call the
\* callback, and the listeners are there to receive a pointer-up or -leave.
C15_Witness ==
  /\ Handling /\ ~isPointerDown /\ ~isRevealed /\ revealCalls = 0
  /\ enqCount > 0 /\ drawLog # <<>>
  /\ IsFin(revealThreshold)
  /\ ErasedAtLeast(pixels, revealThreshold[2])

\* the ranks of the points of a queue, in order
Ranks(queue) == [i \in 1 .. Len(queue) |-> queue[i].n]

\* the overlay pixels under an opaque pixel of the brush stamped at point
OpaqueFootprint(point) ==
  { q \in PixelPos :
      /\ IsFin(point.x) /\ IsFin(point.y)
      /\ \E b \in BrushPos :
           /\ brushImage[b] = 255
           /\ q[1] = point.x[2] - BrushHalf + b[1]
           /\ q[2] = point.y[2] - BrushHalf + b[2] }

\* a step that takes points off the queue or starts a new frame's log
FrameStep == Len(paintQueue') < Len(paintQueue) \/ drawLog' # drawLog

\* C16: a frame takes every point of the queue, each once and in order,
\* stamps each on the overlay, leaves the queue empty and one frame callback
\* requested; points leave the queue in no other step, and a point that has
\* left it is never in it again; and with frames occurring the queue is
\* empty again and again, so that every point enqueued is taken by a frame
\* (unless a handler has stopped the page in an endless loop).
C16_EveryPointDrawnOnce ==
  /\ [][ /\ FrameStep =>
              /\ paintQueue' = <<>>
              /\ drawLog' = Ranks(paintQueue)
              /\ rafPending' = 1
              /\ \A i \in 1 .. Len(paintQueue) :
                   \A q \in OpaqueFootprint(paintQueue[i]) : pixels'[q] = 0
         /\ \A i \in 1 .. Len(paintQueue') :
              \/ \E j \in 1 .. Len(paintQueue) : paintQueue'[i] = paintQueue[j]
              \/ paintQueue'[i].n > enqCount ]_vars
  /\ []<>(hung \/ paintQueue = <<>>)

\* C16 witness: a frame has taken two points or more, the last of them the
\* last point ever enqueued, stamped them, and left the queue empty.
C16_Witness ==
  /\ Len(drawLog) >= 2 /\ drawLog[Len(drawLog)] = enqCount
  /\ paintQueue = <<>> /\ rafPending = 1
  /\ \E q \in PixelPos : pixels[q] = 0

\* the points a stamp may be drawn at, on the overlay and around it
StampPoints ==
  { Pt(Fin(x), Fin(y)) : x \in -1 .. OverlayW + 1, y \in -1 .. OverlayH + 1 }

\* C17: for every overlay the widget can have, every point and every pixel:
\* if the pixel's alpha is 0 after the stamp is drawn at the point, it is
\* still 0 after the stamp is drawn there a second time.
C17_StampIdempotentAtZero ==
  \A pt \in StampPoints :
    LET once == drawImage(pixels, pt)
    IN  \A q \in PixelPos : once[q] = 0 => drawImage(once, pt)[q] = 0

\* C17 witness: the brush with the half-transparent pixel was stamped twice
\* at (1,1) on an opaque overlay: the pixel under an opaque brush pixel went
\* to 0 and stayed there, the one under the half-transparent pixel went from
\* 255 to 127 to 63.
C17_Witness ==
  /\ drawLog # <<>> /\ enqCount >= 2 /\ paintQueue = <<>>
  /\ pixels[<<1, 0>>] = 0 /\ pixels[<<1, 1>>] = 0
  /\ pixels[<<0, 1>>] = 63 /\ pixels[<<0, 0>>] = 255

\* the overlay pixels under the brush stamped at point: the brush's
\* rectangle centred on the point, clipped to the overlay
Footprint(point) ==
  { q \in PixelPos :
      /\ IsFin(point.x) /\ IsFin(point.y)
      /\ point.x[2] - BrushHalf <= q[1] /\ q[1] < point.x[2] + BrushHalf
      /\ point.y[2] - BrushHalf <= q[2] /\ q[2] < point.y[2] + BrushHalf }

\* C18: once the overlay canvas exists, a step that changes a pixel raises
\* the alpha of none; it is a frame, and changes pixels only under the
\* stamps of the points that were queued; it is no pointer-up (the scan
\* changes no pixel); and it does not lower the number of pixels at
\* alpha <= 128.
C18_AlphaNeverIncreases ==
  [][ overlayCanvas = "canvas" /\ pixels' # pixels =>
        /\ \A q \in PixelPos : pixels'[q] <= pixels[q]
        /\ rafPending > 0 /\ paintQueue' = <<>>
        /\ \A q \in PixelPos :
             (\A i \in 1 .. Len(paintQueue) : q \notin Footprint(paintQueue[i]))
               => pixels'[q] = pixels[q]
        /\ ~PointerUpStep
        /\ Cardinality(Erased(pixels')) >= Cardinality(Erased(pixels)) ]_vars

\* C18 witness: a session was opened and ended, and a frame has stamped its
\* point: some pixels are at 0, others untouched at 255.
C18_Witness ==
  /\ ~isPointerDown /\ enqCount > 0 /\ drawLog # <<>> /\ paintQueue = <<>>
  /\ \E q \in PixelPos : pixels[q] = 0
  /\ \E q \in PixelPos : pixels[q] = 255

\* a step of onPointerDown: it opens a session, or moves the origin of the
\* open one
PointerDownStep ==
  isPointerDown' /\ (~isPointerDown \/ offsetOrigin' # offsetOrigin)

\* C19: lastPoint is undefined whenever no session is active, and a
\* pointer-down pushes exactly one point, its own, which becomes lastPoint:
\* nothing is interpolated from a point of an earlier session, or from the
\* last point of the open one.
C19_NoTweenIntoPointerDown ==
  [][ /\ ~isPointerDown => lastPoint = <<>>
      /\ ~isPointerDown' => lastPoint' = <<>>
      /\ PointerDownStep =>
           /\ ~hung'
           /\ enqCount' = enqCount + 1
           /\ Len(paintQueue') = Len(paintQueue) + 1
           /\ SubSeq(paintQueue', 1, Len(paintQueue)) = paintQueue
           /\ LET new == paintQueue'[Len(paintQueue')]
                  own == ScaledPoint(offsetOrigin'.x, offsetOrigin'.y, scale)
              IN  /\ new.x = Round(own.x, own.den)
                  /\ new.y = Round(own.y, own.den)
                  /\ lastPoint' = <<Pt(new.x, new.y)>> ]_vars

\* C19 witness: a first session at (1,1) has ended (its pointer-up called
\* the callback, the threshold being 0) and a second one was opened at
\* (4,2), farther away than minPointDist: the queue holds the two points and
\* nothing between them.
C19_Witness ==
  /\ isPointerDown /\ revealCalls = 1 /\ enqCount = 2 /\ minPointDist = <<1, 1>>
  /\ Ranks(paintQueue) = <<1, 2>>
  /\ Pt(paintQueue[1].x, paintQueue[1].y) = Pt(Fin(1), Fin(1))
  /\ Pt(paintQueue[2].x, paintQueue[2].y) = Pt(Fin(4), Fin(2))
  /\ lastPoint = <<Pt(Fin(4), Fin(2))>>

\* the initialisation has succeeded: both images have loaded into canvases
\* and the container took the overlay canvas and gave its width
Initialised ==
  /\ overlayLoaded /\ brushLoaded
  /\ overlayCanvas = "canvas" /\ brushCanvas = "canvas"
  /\ hasAppendChild(args.el) /\ hasGetBoundingClientRect(args.el)

\* C20: the listeners are registered at most once and at most one frame
\* callback is pending; from the successful initialisation on the listeners
\* are there and exactly one frame callback is pending; before both images
\* have loaded and after a failed load there is neither, and no frame
\* callback is pending unless the initialisation has succeeded.
C20_InitialisedOnce ==
  /\ listening \in {0, 1}
  /\ rafPending \in {0, 1}
  /\ Initialised => listening = 1 /\ rafPending = 1
  /\ ~Initialised => rafPending = 0
  /\ ~(/\ overlayLoaded /\ brushLoaded
       /\ overlayCanvas = "canvas" /\ brushCanvas = "canvas")
       => listening = 0

\* C20 witness: frames have run, the last one with points to draw, and one
\* frame callback is pending.
C20_Witness ==
  listening = 1 /\ rafPending = 1 /\ drawLog # <<>> /\ paintQueue # <<>>

====
